---- MODULE Spec2Model ----
(***************************************************************************)
(* Model of the Davis WeatherLink Live driver (daviswll.py): construction  *)
(* of the driver from a station dictionary, the polling loop               *)
(* gen_loop_packets, and parse_packet with its helpers.                    *)
(*                                                                         *)
(* Python values are tagged records so that values of different Python     *)
(* types can be compared: I(n) an int, F(n) a float, S(s) a str, None.     *)
(* A float is held in fixed point, n being the number of 1e-8 units, so    *)
(* 0.01 is F(1000000).  Every number a payload carries is an int.         *)
(* A string that the code takes apart (the mappings option) is a sequence  *)
(* of one-character strings.                                               *)
(***************************************************************************)
EXTENDS Integers, Sequences, FiniteSets, TLC

VARIABLES
    pc,                 \* position of the program: constructor, then the loop
    station,            \* environment: which kind of station answers the polls
    host,               \* self.host
    mappings,           \* self.mappings
    poll_interval,      \* self.poll_interval
    annual_rain_scaled, \* self.annual_rain_scaled
    rain_scale_factor,  \* self.rain_scale_factor
    default_weather_txid, \* self.default_weather_txid
    default_soil_txid,  \* self.default_soil_txid
    txids,              \* self.txids
    response,           \* the response of the last fetch
    data,               \* parse_packet's local frame of the last parse
    value,              \* what get_condition returned for each raw field
    packet,             \* _packet of the last iteration
    logged,             \* the log_err calls of the last step
    emitted,            \* records yielded in the current iteration
    last_raw,           \* history: raw annual total of the last record with rain
    steady,             \* history: factor stayed 0.01 and the totals never fell
    seen_rain_size,     \* history: last recognised rain_size taken so far
    last_parsed_raw     \* history: raw annual total of the last payload parsed, if any

vars == <<pc, station, host, mappings, poll_interval, annual_rain_scaled, rain_scale_factor,
          default_weather_txid, default_soil_txid, txids, response, data, value, packet, logged, emitted,
          last_raw, steady, seen_rain_size, last_parsed_raw>>

-----------------------------------------------------------------------------
(* Python values *)

I(n) == [t |-> "int", n |-> n, s |-> ""]
F(n) == [t |-> "float", n |-> n, s |-> ""]
S(s) == [t |-> "str", n |-> 0, s |-> s]
None == [t |-> "none", n |-> 0, s |-> ""]
Unbound == [t |-> "unbound", n |-> 0, s |-> ""]

IsNum(v) == v.t \in {"int", "float"}

\* bool(v) as used by "if r:"
Truthy(v) ==
    CASE v.t = "none" -> FALSE
      [] v.t = "str" -> v.s # ""
      [] OTHER -> v.n # 0

RECURSIVE Repeat(_, _)
\* s * n for a str s and an int n
Repeat(s, n) == IF n <= 0 THEN "" ELSE s \o Repeat(s, n - 1)

TypeError == [t |-> "TypeError", n |-> 0, s |-> ""]

\* a * b as Python evaluates it for the types that occur
Mul(a, b) ==
    CASE a.t = "int" /\ b.t = "int" -> I(a.n * b.n)
      [] a.t = "int" /\ b.t = "float" -> F(a.n * b.n)
      [] a.t = "float" /\ b.t = "int" -> F(a.n * b.n)
      [] a.t = "int" /\ b.t = "str" -> S(Repeat(b.s, a.n))
      [] a.t = "str" /\ b.t = "int" -> S(Repeat(a.s, b.n))
      [] OTHER -> TypeError

-----------------------------------------------------------------------------
(* Module constants *)

MM_TO_INCH == 3937010

rain_collector_scale ==
    (1 :> F(1000000)) @@
    (2 :> F(MM_TO_INCH \div 5)) @@
    (3 :> F(10000000)) @@
    (4 :> F(MM_TO_INCH \div 1000))

SensorInfo(metric, wllname, factor, metric_type, txid_group, function) ==
    [metric |-> metric, wllname |-> wllname, factor |-> factor,
     metric_type |-> metric_type, txid_group |-> txid_group, function |-> function]

packet_info == <<
    SensorInfo("outTemp", "temp", I(1), S("temp"), "W", "None"),
    SensorInfo("outHumidity", "hum", I(1), S("temp"), "W", "None"),
    SensorInfo("dewpoint", "dew_point", I(1), S("temp"), "W", "None"),
    SensorInfo("heatindex", "heat_index", I(1), S("temp"), "W", "None"),
    SensorInfo("windchill", "wind_chill", I(1), S("wind"), "W", "None"),
    SensorInfo("windSpeed", "wind_speed_last", I(1), S("wind"), "W", "None"),
    SensorInfo("windDir", "wind_dir_last", I(1), S("wind"), "W", "None"),
    SensorInfo("windGust", "wind_speed_hi_last_10_min", I(1), S("wind"), "W", "None"),
    SensorInfo("windGustDir", "wind_dir_scalar_avg_last_10_min", I(1), S("wind"), "W", "None"),
    SensorInfo("rain", "rainfall_year", I(1), S("rain"), "W", "track_total_rain"),
    SensorInfo("rainRate", "rain_rate_last", I(1), S("rain"), "W", "scale_rain"),
    SensorInfo("radiation", "solar_rad", I(1), S("solar"), "W", "None"),
    SensorInfo("UV", "uv_index", I(1), S("uv"), "W", "None"),
    SensorInfo("txBatteryStatus", "trans_battery_flag", S("battery"), I(1), "W", "None"),
    SensorInfo("soilTemp1", "temp_1", I(1), S("soil1"), "S", "None"),
    SensorInfo("soilTemp2", "temp_2", I(1), S("soil2"), "S", "None"),
    SensorInfo("soilTemp3", "temp_3", I(1), S("soil3"), "S", "None"),
    SensorInfo("soilTemp4", "temp_4", I(1), S("soil4"), "S", "None"),
    SensorInfo("soilMoist1", "moist_soil_1", I(1), S("moist1"), "S", "None"),
    SensorInfo("soilMoist2", "moist_soil_2", I(1), S("moist2"), "S", "None"),
    SensorInfo("soilMoist3", "moist_soil_3", I(1), S("moist3"), "S", "None"),
    SensorInfo("soilMoist4", "moist_soil_4", I(1), S("moist4"), "S", "None"),
    SensorInfo("barometer", "bar_sea_level", I(1), S("bar"), "B", "None"),
    SensorInfo("pressure", "bar_absolute", I(1), S("bar"), "B", "None"),
    SensorInfo("inTemp", "temp_in", I(1), S("indoor"), "I", "None"),
    SensorInfo("inHumidity", "hum_in", I(1), S("indoor"), "I", "None"),
    SensorInfo("inDewpoint", "dew_point_in", I(1), S("indoor"), "I", "None") >>

WllNames == {packet_info[i].wllname : i \in 1..Len(packet_info)}

\* weewx.US, a constant of the host framework
US == S("weewx.US")

-----------------------------------------------------------------------------
(* Rain helpers *)

\* Mutant: an unknown collector type falls back to the factor of type 1
get_rain_scale_factor_with_default(collector_type) ==
    IF collector_type.t = "int" /\ collector_type.n \in DOMAIN rain_collector_scale
    THEN rain_collector_scale[collector_type.n]
    ELSE rain_collector_scale[1]

get_rain_scale_factor(collector_type) ==
    IF collector_type.t = "int" /\ collector_type.n \in DOMAIN rain_collector_scale
    THEN rain_collector_scale[collector_type.n]
    ELSE None

scale_rain(factor, amt) == Mul(amt, factor)

\* Mutant: the accumulator keeps the first total it was given
track_total_rain_keeps_first(stored, factor, annual_rain) ==
    LET scaled == scale_rain(factor, annual_rain)
        base == IF stored = None THEN scaled
                ELSE IF scaled.n < stored.n THEN F(0)
                ELSE stored
    IN [rain_amt |-> F(scaled.n - base.n),
        annual_rain_scaled |-> IF stored = None THEN scaled ELSE stored]

\* Mutant: a total below the accumulator is not taken for a new year
track_total_rain_without_reset(stored, factor, annual_rain) ==
    LET scaled == scale_rain(factor, annual_rain)
        base == IF stored = None THEN scaled ELSE stored
    IN [rain_amt |-> F(scaled.n - base.n), annual_rain_scaled |-> scaled]

\* The result of track_total_rain: the value returned and the accumulator left
\* in drvr.annual_rain_scaled.  The literal 0 of the reset compares and
\* subtracts as 0.0.
track_total_rain(stored, factor, annual_rain) ==
    LET scaled == scale_rain(factor, annual_rain)
        base == IF stored = None THEN scaled
                ELSE IF scaled.n < stored.n THEN F(0)
                ELSE stored
    IN [rain_amt |-> F(scaled.n - base.n), annual_rain_scaled |-> scaled]

-----------------------------------------------------------------------------
(* Transmitter resolution *)

all_txids == <<I(1), I(2), I(3), I(4), I(5), I(6), I(7), I(8), S("B"), S("I")>>

EmptyDict == [p \in {} |-> None]

RECURSIVE ScanTxids_last_match(_, _, _)
\* Mutant: the scan keeps going and returns the last match
ScanTxids_last_match(frame, condition, i) ==
    IF i > Len(all_txids) THEN None
    ELSE LET later == ScanTxids_last_match(frame, condition, i + 1)
         IN IF later = None /\ <<all_txids[i], condition>> \in DOMAIN frame
            THEN frame[<<all_txids[i], condition>>]
            ELSE later

RECURSIVE ScanTxids(_, _, _)
\* The loop "for tx in self.all_txids" of get_condition, from position i
ScanTxids(frame, condition, i) ==
    IF i > Len(all_txids) THEN None
    ELSE IF <<all_txids[i], condition>> \in DOMAIN frame
    THEN frame[<<all_txids[i], condition>>]
    ELSE ScanTxids(frame, condition, i + 1)

get_condition(assigned, frame, condition) ==
    IF <<assigned[condition], condition>> \in DOMAIN frame
    THEN frame[<<assigned[condition], condition>>]
    ELSE ScanTxids(frame, condition, 1)

-----------------------------------------------------------------------------
(* parse_packet *)

\* The txid the loop body of parse_packet works with for block c, prev being
\* the value the variable had before (Unbound on entry to the loop).
BlockTxid(c, prev) ==
    LET record_type == c["data_structure_type"]
    IN IF record_type \in {I(1), I(2)} THEN c["txid"]
       ELSE IF record_type = I(3) THEN S("B")
       ELSE IF record_type = I(4) THEN S("I")
       ELSE prev

\* The exception a block raises ("" for none): KeyError when it has no data_structure_type, or is of type
\* 1 or 2 and has no txid; UnboundLocalError when its type is none
\* of 1..4 and no earlier block has set txid.
BlockRaises(c, prev) ==
    IF "data_structure_type" \notin DOMAIN c THEN "KeyError"
    ELSE IF c["data_structure_type"] \in {I(1), I(2)} /\ "txid" \notin DOMAIN c
    THEN "KeyError"
    ELSE IF BlockTxid(c, prev) = Unbound THEN "UnboundLocalError"
    ELSE ""

\* Whether key k of a block read under txid is the intercepted rain_size
Intercepted(assigned, txid, k) == k = "rain_size" /\ txid = assigned["rainfall_year"]

\* One pass of the body of "for c in json_data['conditions']"
ReadBlock(assigned, c, st) ==
    LET txid == BlockTxid(c, st.txid)
        kept == {k \in DOMAIN c : ~Intercepted(assigned, txid, k)}
        r == IF "rain_size" \in DOMAIN c /\ Intercepted(assigned, txid, "rain_size")
             THEN get_rain_scale_factor(c["rain_size"])
             ELSE None
    IN [txid |-> txid,
        factor |-> IF Truthy(r) THEN r ELSE st.factor,
        data |-> [p \in DOMAIN st.data \cup {<<txid, k>> : k \in kept} |->
                     IF p[1] = txid /\ p[2] \in kept THEN c[p[2]] ELSE st.data[p]],
        raised |-> ""]

RECURSIVE ReadConditions(_, _, _, _)
ReadConditions(assigned, conditions, i, st) ==
    IF i > Len(conditions) THEN st
    ELSE IF BlockRaises(conditions[i], st.txid) # ""
    THEN [st EXCEPT !.raised = BlockRaises(conditions[i], st.txid)]
    ELSE ReadConditions(assigned, conditions, i + 1, ReadBlock(assigned, conditions[i], st))

\* One pass of the body of "for metric, info in packet_info.items()"
Derive(assigned, frame, factor, info, st) ==
    LET found == get_condition(assigned, frame, info.wllname)
        scaled == Mul(found, info.factor)
        tracked == track_total_rain(st.annual_rain_scaled, factor, scaled)
        result == CASE info.function = "track_total_rain" -> tracked.rain_amt
                    [] info.function = "scale_rain" -> scale_rain(factor, scaled)
                    [] OTHER -> scaled
    IN IF found = None THEN [st EXCEPT !.value = (info.wllname :> found) @@ @]
       ELSE IF scaled = TypeError \/ (info.function # "None" /\ ~IsNum(scaled))
       THEN [st EXCEPT !.raised = "TypeError"]
       ELSE [pkt |-> (info.metric :> result) @@ st.pkt,
             value |-> (info.wllname :> found) @@ st.value,
             annual_rain_scaled |-> IF info.function = "track_total_rain"
                                    THEN tracked.annual_rain_scaled
                                    ELSE st.annual_rain_scaled,
             raised |-> ""]

RECURSIVE DeriveAll(_, _, _, _, _)
DeriveAll(assigned, frame, factor, i, st) ==
    IF i > Len(packet_info) \/ st.raised # "" THEN st
    ELSE DeriveAll(assigned, frame, factor, i + 1,
                   Derive(assigned, frame, factor, packet_info[i], st))

\* parse_packet(json_data) on a driver with the given fields: the record
\* returned (or the exception raised), the locals, and the fields it leaves
\* behind.
parse_packet(assigned, stored, factor, payload) ==
    IF "ts" \notin DOMAIN payload \/ "conditions" \notin DOMAIN payload
    THEN [raised |-> "KeyError", pkt |-> <<>>, data |-> EmptyDict, value |-> <<>>,
          rain_scale_factor |-> factor, annual_rain_scaled |-> stored]
    ELSE LET read == ReadConditions(assigned, payload["conditions"], 1,
                        [txid |-> Unbound, factor |-> factor, data |-> EmptyDict,
                         raised |-> ""])
             made == DeriveAll(assigned, read.data, read.factor, 1,
                        [pkt |-> ("dateTime" :> payload["ts"]) @@ ("usUnits" :> US),
                         value |-> <<>>, annual_rain_scaled |-> stored,
                         raised |-> ""])
         IN IF read.raised # ""
            THEN [raised |-> read.raised, pkt |-> <<>>, data |-> read.data, value |-> <<>>,
                  rain_scale_factor |-> read.factor, annual_rain_scaled |-> stored]
            ELSE [raised |-> made.raised,
                  pkt |-> IF made.raised # "" THEN <<>> ELSE made.pkt,
                  data |-> read.data, value |-> made.value,
                  rain_scale_factor |-> read.factor,
                  annual_rain_scaled |-> made.annual_rain_scaled]

-----------------------------------------------------------------------------
(* Strings of the configuration, as sequences of characters *)

UpperCase == <<"A","B","C","D","E","F","G","H","I","J","K","L","M",
               "N","O","P","Q","R","S","T","U","V","W","X","Y","Z">>
LowerCase == <<"a","b","c","d","e","f","g","h","i","j","k","l","m",
               "n","o","p","q","r","s","t","u","v","w","x","y","z">>
Digits == <<"0","1","2","3","4","5","6","7","8","9">>
Whitespace == {" ", "\t", "\n"}

IndexIn(ch, alphabet) ==
    IF \E i \in 1..Len(alphabet) : alphabet[i] = ch
    THEN CHOOSE i \in 1..Len(alphabet) : alphabet[i] = ch
    ELSE 0

\* str.lower()
lower(str) ==
    [i \in 1..Len(str) |->
        IF IndexIn(str[i], UpperCase) > 0 THEN LowerCase[IndexIn(str[i], UpperCase)]
        ELSE str[i]]

RECURSIVE Pieces(_, _, _)
\* The pieces of str between separators, the one being read last
Pieces(str, seps, i) ==
    IF i = 0 THEN << <<>> >>
    ELSE LET before == Pieces(str, seps, i - 1)
         IN IF str[i] \in seps THEN Append(before, <<>>)
            ELSE [before EXCEPT ![Len(before)] = Append(@, str[i])]

\* Mutant: the tokens are separated by commas, as the sample stanza writes them
split_at_commas(str) == SelectSeq(Pieces(str, {","}, Len(str)), LAMBDA w : w # <<>>)

\* str.split(): on runs of whitespace, no empty pieces
split(str) == SelectSeq(Pieces(str, Whitespace, Len(str)), LAMBDA w : w # <<>>)

\* str.split(':'): empty pieces are kept
split_on(str, sep) == Pieces(str, {sep}, Len(str))

RECURSIVE Join(_)
\* The str a sequence of characters spells
Join(str) == IF str = <<>> THEN "" ELSE Head(str) \o Join(Tail(str))

RECURSIVE DigitsValue(_)
DigitsValue(str) ==
    IF str = <<>> THEN 0
    ELSE 10 * DigitsValue(SubSeq(str, 1, Len(str) - 1)) + (IndexIn(str[Len(str)], Digits) - 1)

\* int(str): the int, or ValueError
ValueError == [t |-> "ValueError", n |-> 0, s |-> ""]
int(str) ==
    LET signed == str # <<>> /\ str[1] \in {"+", "-"}
        body == IF signed THEN Tail(str) ELSE str
    IN IF body = <<>> \/ \E i \in 1..Len(body) : IndexIn(body[i], Digits) = 0
       THEN ValueError
       ELSE I(IF signed /\ str[1] = "-" THEN 0 - DigitsValue(body) ELSE DigitsValue(body))

-----------------------------------------------------------------------------
(* Construction *)

\* The loop "for c in packet_info.values(): if c.metric_type == metric_type"
MapGroup(assigned, metric_type, txid) ==
    [w \in DOMAIN assigned |->
        IF \E i \in 1..Len(packet_info) :
              packet_info[i].wllname = w /\ packet_info[i].metric_type = metric_type
        THEN txid ELSE assigned[w]]

\* One pass of "for m in mappings.lower().split()": a token that does not
\* unpack into two pieces, or whose second piece is no int, is skipped.
MapToken(assigned, m) ==
    LET parts == split_on(m, ":")
    IN IF Len(parts) # 2 \/ int(parts[2]) = ValueError THEN assigned
       ELSE MapGroup(assigned, S(Join(parts[1])), int(parts[2]))

RECURSIVE MapTokens(_, _, _)
MapTokens(assigned, tokens, i) ==
    IF i > Len(tokens) THEN assigned
    ELSE MapTokens(MapToken(assigned, tokens[i]), tokens, i + 1)

\* self.txids after init_txids(mappings); a mappings of None or '' is <<>>
init_txids(weather_txid, soil_txid, mapping_str) ==
    LET default_txids == ("W" :> weather_txid) @@ ("S" :> soil_txid)
                         @@ ("B" :> S("B")) @@ ("I" :> S("I"))
        defaults == [w \in WllNames |->
                        default_txids[(CHOOSE c \in {packet_info[i] : i \in 1..Len(packet_info)} :
                                          c.wllname = w).txid_group]]
    IN IF mapping_str = <<>> THEN defaults
       ELSE MapTokens(defaults, split(lower(mapping_str)), 1)

\* stn_dict.get(key, default)
Get(stn_dict, key, default) == IF key \in DOMAIN stn_dict THEN stn_dict[key] ELSE default

\* The floor the constructor compares poll_interval with
MinPollInterval == 10

\* __init__(**stn_dict): the fields of the driver built, or raised = TRUE with
\* the fields set before the exception.  Formatting the second message
\* evaluates the name poll_interval, which is not defined in __init__.
DavisWLL(stn_dict) ==
    LET h == Get(stn_dict, "host", None)
        interval == Get(stn_dict, "poll_interval", I(10))
        no_host == IF Truthy(h) THEN {} ELSE {"hostname or ip address is required"}
    IN IF interval.n < MinPollInterval
       THEN [raised |-> "NameError", host |-> h, poll_interval |-> interval,
             mappings |-> Get(stn_dict, "mappings", <<>>),
             annual_rain_scaled |-> Unbound, rain_scale_factor |-> Unbound,
             default_weather_txid |-> Unbound, default_soil_txid |-> Unbound,
             txids |-> <<>>, logged |-> no_host]
       ELSE [raised |-> "", host |-> h, poll_interval |-> interval,
             mappings |-> Get(stn_dict, "mappings", <<>>),
             annual_rain_scaled |-> None,
             rain_scale_factor |-> get_rain_scale_factor(I(1)),
             default_weather_txid |-> Get(stn_dict, "weather_transmitter_id", I(1)),
             default_soil_txid |-> Get(stn_dict, "soil_transmitter_id", I(2)),
             txids |-> init_txids(Get(stn_dict, "weather_transmitter_id", I(1)),
                                  Get(stn_dict, "soil_transmitter_id", I(2)),
                                  Get(stn_dict, "mappings", <<>>)),
             logged |-> no_host]

-----------------------------------------------------------------------------
(* Environment: configurations and responses, drawn from small sets *)

MaxRaw == 2        \* largest raw annual rain total a rain station reports
MaxBlocks == 2     \* most condition blocks in a payload of a mixed station

Opt(k, vals) == {<<>>} \cup {k :> v : v \in vals}

Chars_rain1_temp2 == <<"r","a","i","n",":","1"," ","t","e","m","p",":","2">>
Chars_battery(n) == <<"b","a","t","t","e","r","y",":", Digits[n + 1]>>
\* one good token in capitals, then tokens init_txids skips
Chars_mixed == <<"T","E","M","P",":","2"," ","w","i","n","d",":","4",","," ",
                 "r","a","i","n",":","x"," "," ","u","v",":","1",":","2"," ","s","o","l","a","r">>
BatteryTxids == {3, 6}

MappingStrings == {Chars_rain1_temp2, Chars_mixed} \cup {Chars_battery(n) : n \in BatteryTxids}

\* The station dictionaries the driver is constructed with
Configs ==
    {h @@ p @@ w @@ m :
        h \in {"host" :> S("10.203.213.224")},
        p \in Opt("poll_interval", {I(5)}),
        w \in {<<>>, ("weather_transmitter_id" :> I(5)) @@ ("soil_transmitter_id" :> I(5))},
        m \in Opt("mappings", MappingStrings)}
    \cup Opt("poll_interval", {I(5)})

Stations == {"test", "iss", "multi"}

Block(type, fields) == ("data_structure_type" :> I(type)) @@ fields
TxBlock(type, tx, fields) == ("data_structure_type" :> I(type)) @@ ("txid" :> I(tx)) @@ fields

\* The int fields of the two readings of test_daviswll.py
Reading(dir, rate, solar, year) ==
    << TxBlock(1, 5, ("lsid" :> I(330316)) @@ ("wind_dir_last" :> I(dir))
                     @@ ("rain_size" :> I(1)) @@ ("rain_rate_last" :> I(rate))
                     @@ ("solar_rad" :> I(solar)) @@ ("trans_battery_flag" :> I(0))
                     @@ ("rainfall_year" :> I(year))),
       Block(4, "lsid" :> I(330311)),
       Block(3, "lsid" :> I(330310)) >>

RainSizes == {1, 2, 3, 4, 5}

\* One weather transmitter, number 5, with its rain fields
IssConditions ==
    { << TxBlock(1, 5, y @@ z @@ ("rain_rate_last" :> I(2))) >> :
        y \in Opt("rainfall_year", {I(n) : n \in 0..MaxRaw}),
        z \in Opt("rain_size", {I(n) : n \in RainSizes}) }

\* Blocks of a station with several transmitters: three weather transmitters,
\* a soil transmitter with a null reading, the two fixed sensors, and a block
\* of a record type the driver does not know.
MultiBlocks ==
    { TxBlock(1, tx, ("temp" :> I(50 + tx)) @@ ("rain_rate_last" :> I(tx))
                     @@ ("trans_battery_flag" :> I(tx % 2))) : tx \in {1, 2, 5} }
    \cup { TxBlock(2, 2, ("temp_1" :> I(61)) @@ ("temp" :> None)),
           Block(3, ("bar_sea_level" :> I(30)) @@ ("temp_in" :> I(69))),
           Block(4, "temp_in" :> I(70)),
           Block(5, ("temp" :> I(99)) @@ ("rain_size" :> I(3))) }

Conditions(st) ==
    CASE st = "test" -> {Reading(200, 0, 378, 986), Reading(352, 2, 445, 987)}
      [] st = "iss" -> IssConditions
      [] st = "multi" -> UNION {[1..k -> MultiBlocks] : k \in 0..MaxBlocks}

Ts == 1634925911

\* A response: whether its body is JSON, and the object the body decodes to
Ok(payload) == [json |-> TRUE, rsp |-> ("data" :> payload)]
BadResponses ==
    {[json |-> FALSE, rsp |-> <<>>], [json |-> TRUE, rsp |-> <<>>],
     Ok("conditions" :> <<>>), Ok("ts" :> I(Ts))}
Responses(st) ==
    BadResponses \cup {Ok(("ts" :> I(Ts)) @@ ("conditions" :> c)) : c \in Conditions(st)}

NoResponse == [json |-> FALSE, rsp |-> <<>>]

-----------------------------------------------------------------------------
(* History *)

RECURSIVE TxidAt(_, _)
\* The txid parse_packet reads block i of conditions under
TxidAt(conditions, i) ==
    IF i = 0 THEN Unbound ELSE BlockTxid(conditions[i], TxidAt(conditions, i - 1))

\* The blocks of conditions whose rain_size is taken as the collector type
Taken(assigned, conditions) ==
    {i \in 1..Len(conditions) :
        /\ "rain_size" \in DOMAIN conditions[i]
        /\ TxidAt(conditions, i) = assigned["rainfall_year"]
        /\ conditions[i]["rain_size"] \in {I(1), I(2), I(3), I(4)}}

\* The collector type last taken, before being the one taken earlier
LastTaken(assigned, conditions, before) ==
    LET taken == Taken(assigned, conditions)
    IN IF taken = {} THEN before
       ELSE conditions[CHOOSE i \in taken : \A j \in taken : j <= i]["rain_size"]

-----------------------------------------------------------------------------
(* The program *)

Init ==
    /\ pc = "new"
    /\ station \in Stations
    /\ host = Unbound
    /\ mappings = <<>>
    /\ poll_interval = Unbound
    /\ annual_rain_scaled = Unbound
    /\ rain_scale_factor = Unbound
    /\ default_weather_txid = Unbound
    /\ default_soil_txid = Unbound
    /\ txids = <<>>
    /\ response = NoResponse
    /\ data = EmptyDict
    /\ value = <<>>
    /\ packet = <<>>
    /\ logged = {}
    /\ emitted = 0
    /\ last_raw = None
    /\ steady = TRUE
    /\ seen_rain_size = None
    /\ last_parsed_raw = None

\* wll = DavisWLL(**stn_dict), then wll.gen_loop_packets() is entered
Construct ==
    /\ pc = "new"
    /\ \E stn_dict \in Configs : \E drvr \in {DavisWLL(stn_dict)} :
        /\ pc' = IF drvr.raised # "" THEN "raised" ELSE "fetch"
        /\ host' = drvr.host
        /\ mappings' = drvr.mappings
        /\ poll_interval' = drvr.poll_interval
        /\ annual_rain_scaled' = drvr.annual_rain_scaled
        /\ rain_scale_factor' = drvr.rain_scale_factor
        /\ default_weather_txid' = drvr.default_weather_txid
        /\ default_soil_txid' = drvr.default_soil_txid
        /\ txids' = drvr.txids
        /\ logged' = drvr.logged
    /\ UNCHANGED <<station, response, data, value, packet, emitted,
                   last_raw, steady, seen_rain_size, last_parsed_raw>>

\* The classes the two handlers of gen_loop_packets catch: "except Exception"
\* catches every exception class that derives from Exception
Exceptions == {"ConnectionError", "Timeout", "JSONDecodeError", "KeyError",
               "UnboundLocalError", "TypeError"}
\* Mutant: the handlers name the errors of the transport, of the JSON decoder
\* and of a missing key only
Caught_named_only(exception) ==
    exception \in {"ConnectionError", "Timeout", "JSONDecodeError", "KeyError"}

Caught(exception) == exception \in Exceptions

TransportErrors == {"ConnectionError", "Timeout"}

\* requests.get raises: two log_err calls, then time.sleep(2) and continue
FetchFails ==
    /\ pc = "fetch"
    /\ \E exception \in TransportErrors :
        /\ pc' = IF Caught(exception) THEN "retry" ELSE "propagated"
        /\ logged' = IF Caught(exception) THEN {"Error connecting", exception} ELSE {}
    /\ response' = NoResponse
    /\ data' = EmptyDict
    /\ value' = <<>>
    /\ packet' = <<>>
    /\ emitted' = 0
    /\ UNCHANGED <<station, host, mappings, poll_interval, annual_rain_scaled,
                   rain_scale_factor, default_weather_txid,
                   default_soil_txid, txids, last_raw, steady, seen_rain_size, last_parsed_raw>>

\* time.sleep(2) returns
Retry ==
    /\ pc = "retry"
    /\ pc' = "fetch"
    /\ logged' = {}
    /\ UNCHANGED <<station, host, mappings, poll_interval, annual_rain_scaled, rain_scale_factor,
                   default_weather_txid, default_soil_txid, txids, response, data, value, packet, emitted,
                   last_raw, steady, seen_rain_size, last_parsed_raw>>

\* The statements of the outer try after the fetch: response.json(),
\* rsp['data'] and parse_packet, with the exception one of them raises
Received(r) ==
    IF r.json /\ "data" \in DOMAIN r.rsp
    THEN parse_packet(txids, annual_rain_scaled, rain_scale_factor, r.rsp["data"])
    ELSE [raised |-> IF r.json THEN "KeyError" ELSE "JSONDecodeError", pkt |-> <<>>, data |-> EmptyDict, value |-> <<>>,
          rain_scale_factor |-> rain_scale_factor,
          annual_rain_scaled |-> annual_rain_scaled]

\* requests.get returns: the rest of the outer try, and either the yield or
\* the handler of the outer try
Fetch ==
    /\ pc = "fetch"
    /\ \E r \in Responses(station) : \E parsed \in {Received(r)} :
        LET rained == parsed.raised = "" /\ "rain" \in DOMAIN parsed.pkt
        IN /\ response' = r
           /\ data' = parsed.data
           /\ value' = parsed.value
           /\ packet' = parsed.pkt
           /\ rain_scale_factor' = parsed.rain_scale_factor
           /\ annual_rain_scaled' = parsed.annual_rain_scaled
           /\ pc' = IF parsed.raised = "" THEN "yield"
                    ELSE IF Caught(parsed.raised) THEN "sleep" ELSE "propagated"
           /\ emitted' = IF parsed.raised = "" THEN 1 ELSE 0
           /\ logged' = IF parsed.raised # "" /\ Caught(parsed.raised)
                        THEN {"Error parsing", parsed.raised} ELSE {}
           /\ last_raw' = IF rained THEN parsed.value["rainfall_year"] ELSE last_raw
           /\ steady' = /\ steady
                        /\ parsed.rain_scale_factor = F(1000000)
                        /\ rained /\ last_raw # None
                             => parsed.value["rainfall_year"].n >= last_raw.n
           /\ seen_rain_size' =
                IF parsed.raised = ""
                THEN LastTaken(txids, r.rsp["data"]["conditions"], seen_rain_size)
                ELSE seen_rain_size
           /\ last_parsed_raw' =
                IF parsed.raised # "" THEN last_parsed_raw
                ELSE IF rained THEN parsed.value["rainfall_year"] ELSE None
    /\ UNCHANGED <<station, host, mappings, poll_interval, default_weather_txid,
                   default_soil_txid, txids>>

\* The consumer asks for the next record: the generator resumes after the
\* yield, and nothing reads the locals of this iteration again
Resume ==
    /\ pc = "yield"
    /\ pc' = "sleep"
    /\ response' = NoResponse
    /\ data' = EmptyDict
    /\ value' = <<>>
    /\ packet' = <<>>
    /\ UNCHANGED <<station, host, mappings, poll_interval, annual_rain_scaled,
                   rain_scale_factor, default_weather_txid, default_soil_txid, txids,
                   logged, emitted, last_raw, steady, seen_rain_size, last_parsed_raw>>

\* time.sleep(self.poll_interval) returns and the next iteration starts
Sleep ==
    /\ pc = "sleep"
    /\ pc' = "fetch"
    /\ response' = NoResponse
    /\ data' = EmptyDict
    /\ value' = <<>>
    /\ packet' = <<>>
    /\ logged' = {}
    /\ emitted' = 0
    /\ UNCHANGED <<station, host, mappings, poll_interval, annual_rain_scaled, rain_scale_factor,
                   default_weather_txid, default_soil_txid, txids, last_raw, steady, seen_rain_size, last_parsed_raw>>

Next == Construct \/ FetchFails \/ Retry \/ Fetch \/ Resume \/ Sleep

Spec == Init /\ [][Next]_vars

-----------------------------------------------------------------------------
(* Rain *)

\* C1: while the calibration factor has stayed 0.01 and the raw annual total
\* has never decreased, the first record that reports rainfall_year has
\* rain = 0 and every later one has rain = 0.01 x (this raw total - the raw
\* total of the record with rain before it).
C1_RainIsScaledIncrease ==
    [][(pc = "fetch" /\ pc' = "yield" /\ "rain" \in DOMAIN packet' /\ steady') =>
          packet'["rain"] = IF last_raw = None THEN F(0)
                            ELSE F(1000000 * (last_raw'.n - last_raw.n))]_vars

\* 986 then 987 gives 0.01
C1_Witness ==
    /\ pc = "yield" /\ steady
    /\ last_raw = I(987)
    /\ packet["rain"] = F(1000000)

\* The scaled annual total of the payload just parsed
ScaledTotal == value["rainfall_year"].n * rain_scale_factor.n

FactorOfType(size) ==
    CASE size = I(2) -> F(787402)
      [] size = I(3) -> F(10000000)
      [] size = I(4) -> F(3937)
      [] OTHER -> F(1000000)

\* C3: the rainRate of a record is its raw rain_rate_last times the factor of
\* the last recognised rain_size (1..4) that a block read under the rain
\* metric's transmitter has carried so far, this payload included, and 0.01
\* when there was none; the frame never holds that transmitter's rain_size.
C3_RainRateUsesLastCollectorType ==
    /\ (pc = "yield" /\ "rainRate" \in DOMAIN packet) =>
          packet["rainRate"] =
              F(value["rain_rate_last"].n * FactorOfType(seen_rain_size).n)
    /\ pc \in {"yield", "sleep"} =>
          <<txids["rainfall_year"], "rain_size">> \notin DOMAIN data

\* a payload with the unknown type 5 after one with type 3: the rate is still
\* scaled by 0.1
C3_Witness ==
    /\ station = "iss" /\ pc = "yield" /\ "rainRate" \in DOMAIN packet
    /\ txids["rainfall_year"] = I(5)
    /\ response.rsp["data"]["conditions"][1]["txid"] = I(5)
    /\ "rain_size" \in DOMAIN response.rsp["data"]["conditions"][1]
    /\ response.rsp["data"]["conditions"][1]["rain_size"] = I(5)
    /\ seen_rain_size = I(3)
    /\ packet["rainRate"] = F(20000000)

-----------------------------------------------------------------------------
(* Transmitter mapping *)

RainGroup == {"rainfall_year", "rain_rate_last"}
TempGroup == {"temp", "hum", "dew_point", "heat_index"}
TempMetric == ("temp" :> "outTemp") @@ ("hum" :> "outHumidity")
              @@ ("dew_point" :> "dewpoint") @@ ("heat_index" :> "heatindex")

\* The transmitter a raw field has when no mapping names its group
DefaultTxid(w) ==
    LET group == (CHOOSE c \in {packet_info[i] : i \in 1..Len(packet_info)} :
                     c.wllname = w).txid_group
    IN CASE group = "W" -> default_weather_txid
         [] group = "S" -> default_soil_txid
         [] OTHER -> S(group)

\* C4: with mappings "rain:1 temp:2" the fields of group rain are assigned
\* transmitter 1, those of group temp transmitter 2, every other field its
\* default; and a field of these groups that the frame holds under its
\* assigned transmitter is emitted from that entry.
C4_MappingsOverrideDefaults ==
    (pc \in {"fetch", "retry", "yield", "sleep"} /\ mappings = Chars_rain1_temp2) =>
        /\ \A w \in RainGroup : txids[w] = I(1)
        /\ \A w \in TempGroup : txids[w] = I(2)
        /\ \A w \in WllNames \ (RainGroup \cup TempGroup) : txids[w] = DefaultTxid(w)
        /\ pc = "yield" =>
            /\ \A w \in TempGroup :
                  (<<I(2), w>> \in DOMAIN data /\ data[<<I(2), w>>] # None) =>
                      packet[TempMetric[w]] = data[<<I(2), w>>]
            /\ <<I(1), "rain_rate_last">> \in DOMAIN data =>
                  packet["rainRate"] =
                      F(data[<<I(1), "rain_rate_last">>].n * rain_scale_factor.n)

\* transmitter 2 and the default transmitter 5 both report temp
C4_Witness ==
    /\ pc = "yield" /\ mappings = Chars_rain1_temp2
    /\ default_weather_txid = I(5)
    /\ <<I(5), "temp">> \in DOMAIN data /\ <<I(2), "temp">> \in DOMAIN data
    /\ data[<<I(5), "temp">>] = I(55)
    /\ "outTemp" \in DOMAIN packet /\ packet["outTemp"] = I(52)

\* C8: a mappings token "battery:N" assigns transmitter N to
\* trans_battery_flag, the source field of txBatteryStatus.
C8_BatteryGroupIsMappable ==
    \A n \in BatteryTxids :
        (pc \in {"fetch", "retry", "yield", "sleep"} /\ mappings = Chars_battery(n)) =>
            txids["trans_battery_flag"] = I(n)

-----------------------------------------------------------------------------
(* Records *)

\* C5: every metric without a derivation function is emitted with the raw
\* value resolved for its source field (times a factor of 1).
C5_PlainMetricsEmitRawValue ==
    pc = "yield" =>
        \A i \in 1..Len(packet_info) :
            (packet_info[i].function = "None" /\ packet_info[i].metric \in DOMAIN packet) =>
                packet[packet_info[i].metric] = value[packet_info[i].wllname]

C9_Order == <<I(1), I(2), I(3), I(4), I(5), I(6), I(7), I(8), S("B"), S("I")>>
C9_Reporters(w) == {i \in 1..Len(C9_Order) : <<C9_Order[i], w>> \in DOMAIN data}
C9_Expected(w) ==
    IF <<txids[w], w>> \in DOMAIN data THEN data[<<txids[w], w>>]
    ELSE IF C9_Reporters(w) = {} THEN None
    ELSE data[<<C9_Order[CHOOSE i \in C9_Reporters(w) :
                             \A j \in C9_Reporters(w) : i <= j], w>>]
BlocksOf(r) == {r.rsp["data"]["conditions"][i] :
                   i \in 1..Len(r.rsp["data"]["conditions"])}

\* C9: a field resolves to the frame's entry under its assigned transmitter
\* when there is one, otherwise to the entry of the first of 1..8, B, I that
\* has the field; a field no transmitter has leaves its metric out of the
\* record; and every entry of the frame comes from a block of this payload.
C9_ResolutionOrder ==
    pc = "yield" =>
        /\ \A i \in 1..Len(packet_info) :
              LET w == packet_info[i].wllname
              IN /\ value[w] = C9_Expected(w)
                 /\ (\A p \in DOMAIN data : p[2] # w) =>
                        packet_info[i].metric \notin DOMAIN packet
        /\ \A p \in DOMAIN data :
              \E b \in BlocksOf(response) : p[2] \in DOMAIN b /\ b[p[2]] = data[p]

\* temp is assigned transmitter 1, which is silent; 5 comes first in the
\* payload, 2 is the lower number
C9_Witness ==
    /\ pc = "yield" /\ txids["temp"] = I(1)
    /\ <<I(1), "temp">> \notin DOMAIN data
    /\ <<I(2), "temp">> \in DOMAIN data /\ <<I(5), "temp">> \in DOMAIN data
    /\ response.rsp["data"]["conditions"][1]["txid"] = I(5)
    /\ value["temp"] = I(52) /\ packet["outTemp"] = I(52)
    /\ "windSpeed" \notin DOMAIN packet

\* The transmitter a block names by its own record type
OwnTxid(c) ==
    CASE c["data_structure_type"] \in {I(1), I(2)} -> c["txid"]
      [] c["data_structure_type"] = I(3) -> S("B")
      [] c["data_structure_type"] = I(4) -> S("I")
      [] OTHER -> Unbound

\* C10: every entry of the frame holds the value of the last block of the
\* payload that has the key and whose own record type resolves to the
\* transmitter the entry is stored under.
C10_BlocksKeepTheirOwnTransmitter ==
    pc = "yield" =>
        LET conditions == response.rsp["data"]["conditions"]
        IN \A p \in DOMAIN data :
              \E i \in 1..Len(conditions) :
                  /\ OwnTxid(conditions[i]) = p[1]
                  /\ p[2] \in DOMAIN conditions[i]
                  /\ conditions[i][p[2]] = data[p]
                  /\ \A j \in (i + 1)..Len(conditions) :
                        ~(OwnTxid(conditions[j]) = p[1] /\ p[2] \in DOMAIN conditions[j])

-----------------------------------------------------------------------------
(* Construction and the loop *)

\* C7: the constructor completes whatever the configuration, logging an
\* error when the host is missing or poll_interval is below 10, and leaves
\* the assignment table populated, the accumulator unset and the factor 0.01.
C7_ConstructionSurvivesConfigErrors ==
    [][pc = "new" =>
          /\ pc' = "fetch"
          /\ DOMAIN txids' = WllNames
          /\ annual_rain_scaled' = None
          /\ rain_scale_factor' = F(1000000)
          /\ (~Truthy(host') \/ poll_interval'.n < 10) => logged' # {}]_vars

Loop == {"fetch", "retry", "yield", "sleep"}

\* What one step of gen_loop_packets may do
LoopStep ==
    /\ pc' \in Loop
    /\ pc = "fetch" => pc' \in {"retry", "sleep", "yield"}
    /\ (pc = "fetch" /\ pc' = "retry") => (emitted' = 0 /\ packet' = <<>> /\ logged' # {})
    /\ pc = "retry" => pc' = "fetch"
    /\ (pc = "fetch" /\ pc' # "retry" /\ response' \in BadResponses) => pc' = "sleep"
    /\ (pc = "fetch" /\ pc' = "sleep") => (emitted' = 0 /\ packet' = <<>> /\ logged' # {})
    /\ (pc = "fetch" /\ pc' = "yield") => (emitted' = 1 /\ DOMAIN packet' # {})
    /\ pc = "yield" => (pc' = "sleep" /\ emitted' = emitted)
    /\ pc = "sleep" => pc' = "fetch"

\* C6: once in the loop the program stays in it and can always take a step:
\* a transport failure yields nothing and leads through the short sleep to
\* the next fetch, a payload failure yields nothing and leads through the
\* interval sleep to the next fetch, and a parsed payload yields one record.
C6_LoopNeverEnds ==
    /\ [](pc \in Loop => ENABLED Next)
    /\ [][(pc \in Loop) => LoopStep]_vars

\* the loop is asleep after a payload without conditions
C6_Witness ==
    /\ pc = "sleep" /\ emitted = 0
    /\ response = Ok("ts" :> I(Ts))
    /\ "KeyError" \in logged

\* C11: a record parsed from a payload whose raw rainfall_year equals that of
\* the payload parsed just before it has rain = 0, whatever rain_size the two
\* payloads carry: the unchanged total yields no rainfall and is not taken
\* for a year rollover (the accumulator is not restarted from zero).
C11_SameTotalGivesNoRain ==
    [][(/\ pc = "fetch" /\ pc' = "yield" /\ "rain" \in DOMAIN packet'
        /\ last_parsed_raw # None
        /\ value'["rainfall_year"] = last_parsed_raw) =>
          /\ packet'["rain"] = F(0)
          /\ ScaledTotal' >= annual_rain_scaled.n]_vars

====
